---- MODULE Spec2Model ----
(***************************************************************************)
(* Model of src/main.rs: the chunked row reverser (reverse_ds_rows with    *)
(* rev_array) and the running-statistics reducer (calc_mean_sd), both      *)
(* working on datasets of one HDF5 file through slice reads and writes.    *)
(*                                                                         *)
(* A dataset is a record [exists, data, nw]: data is the flat sequence of  *)
(* elements (1-based here, 0-based in the source) and nw counts, per       *)
(* element, the writes it has received since the dataset was created.      *)
(* f32 values are modelled as exact extended rationals [k, n, d] with the  *)
(* IEEE special values (NaN, +Inf, -Inf); rounding is not modelled.        *)
(***************************************************************************)
EXTENDS Integers, Sequences, FiniteSets, TLC

VARIABLES store, xsize, ysize, n_lines_read, chunk_size,
          pc, cur, yy, ii, calls, last, failed, partial, restarts

vars == <<store, xsize, ysize, n_lines_read, chunk_size,
          pc, cur, yy, ii, calls, last, failed, partial, restarts>>

----------------------------------------------------------------------------
(* Bounds of the model *)

MaxHeight == 5
MaxWidth == 2
MaxLen == 3
MaxCalls == 3
MaxRestarts == 1

(* Program constants *)

n_lines_read_main == 100
chunk_size_main == 1000000

----------------------------------------------------------------------------
(* f32 arithmetic *)

Abs(x) == IF x < 0 THEN -x ELSE x

RECURSIVE GCD(_, _)
GCD(a, b) == IF b = 0 THEN a ELSE GCD(b, a % b)

Fin(n, d) ==
    LET s == IF d < 0 THEN -1 ELSE 1
        g == GCD(Abs(n), Abs(d))
    IN  [k |-> "fin", n |-> (s * n) \div g, d |-> (s * d) \div g]

NaN == [k |-> "nan", n |-> 0, d |-> 1]

Inf(s) == [k |-> "inf", n |-> s, d |-> 1]

Sgn(x) == IF x < 0 THEN -1 ELSE 1

IsNaNOrInf(a) == a.k \in {"nan", "inf"}

\* el as f32 for a u8 count: exact
as_f32(el) == Fin(el, 1)

\* a / b; a zero divisor is always +0.0 in this program
f32_div(a, b) ==
    IF a.k = "nan" \/ b.k = "nan" THEN NaN
    ELSE IF a.k = "inf" THEN (IF b.k = "inf" THEN NaN ELSE Inf(a.n * Sgn(b.n)))
    ELSE IF b.k = "inf" THEN Fin(0, 1)
    ELSE IF b.n = 0 THEN (IF a.n = 0 THEN NaN ELSE Inf(Sgn(a.n)))
    ELSE Fin(a.n * b.d, a.d * b.n)

\* a - b
f32_sub(a, b) ==
    IF a.k = "nan" \/ b.k = "nan" THEN NaN
    ELSE IF a.k = "inf" THEN (IF b.k = "inf" /\ b.n = a.n THEN NaN ELSE a)
    ELSE IF b.k = "inf" THEN Inf(-b.n)
    ELSE Fin(a.n * b.d - b.n * a.d, a.d * b.d)

\* el.powi(2)
powi2(a) ==
    IF a.k = "nan" THEN NaN
    ELSE IF a.k = "inf" THEN Inf(1)
    ELSE Fin(a.n * a.n, a.d * a.d)

IsSquare(m) == \E r \in 0..m : r * r = m

Root(m) == CHOOSE r \in 0..m : r * r = m

\* el.sqrt(): NaN for a negative argument, never a negative result
sqrt(a) ==
    IF a.k = "nan" THEN NaN
    ELSE IF a.k = "inf" THEN (IF a.n > 0 THEN Inf(1) ELSE NaN)
    ELSE IF a.n < 0 THEN NaN
    ELSE IF IsSquare(a.n) /\ IsSquare(a.d) THEN Fin(Root(a.n), Root(a.d))
    ELSE [k |-> "sqrt", n |-> a.n, d |-> a.d]

----------------------------------------------------------------------------
(* The HDF5 file: names, datasets, slices *)

\* A path is a sequence of tokens; the suffix "_rev" is one token.
Band == <<"band">>
Group == <<"g">>

Concat(name, suffix) == name \o suffix

ends_with_rev(name) == Len(name) > 0 /\ name[Len(name)] = "_rev"

ds_name_rev(base_ds) == Concat(base_ds, <<"_rev">>)

sum_path(group_name) == Concat(group_name, <<"sum", "_rev">>)
sumsq_path(group_name) == Concat(group_name, <<"sumsq", "_rev">>)
count_path(group_name) == Concat(group_name, <<"count", "_rev">>)
mean_path_out(group_name) == Concat(group_name, <<"mean", "_rev">>)
sd_path_out(group_name) == Concat(group_name, <<"sd", "_rev">>)

AllNames == {Band, ds_name_rev(Band), sum_path(Group), sumsq_path(Group),
             count_path(Group), mean_path_out(Group), sd_path_out(Group)}

NoDs == [exists |-> FALSE, data |-> <<>>, nw |-> <<>>]

link_exists(st, name) == name \in DOMAIN st /\ st[name].exists

ds_size(st, name) == Len(st[name].data)

\* A new dataset holds the fill value (0) at every element until written.
NewDs(size, zero) ==
    [exists |-> TRUE, data |-> [i \in 1..size |-> zero], nw |-> [i \in 1..size |-> 0]]

\* create fails when the name is already linked (or is no path of the file)
create_ok(st, name) == name \in DOMAIN st /\ ~st[name].exists

create_dataset(st, name, size, zero) == [st EXCEPT ![name] = NewDs(size, zero)]

\* a slice lower..upper (0-based, half open) is accepted inside the dataset only
slice_ok(st, name, lower, upper) ==
    /\ link_exists(st, name)
    /\ 0 <= lower /\ lower <= upper /\ upper <= ds_size(st, name)

read_slice_1d(st, name, lower, upper) ==
    [i \in 1..(upper - lower) |-> st[name].data[lower + i]]

write_slice(st, name, vals, lower) ==
    [st EXCEPT ![name] =
        [exists |-> TRUE,
         data |-> [i \in 1..Len(@.data) |->
                     IF lower < i /\ i <= lower + Len(vals) THEN vals[i - lower] ELSE @.data[i]],
         nw |-> [i \in 1..Len(@.nw) |->
                     IF lower < i /\ i <= lower + Len(vals) THEN @.nw[i] + 1 ELSE @.nw[i]]]]

----------------------------------------------------------------------------
(* reverse_ds_rows *)

\* reshape to (nrows, ncols), reverse the row axis, flatten
rev_array(input, nrows, ncols) ==
    [i \in 1..(nrows * ncols) |->
        input[(nrows - 1 - ((i - 1) \div ncols)) * ncols + ((i - 1) % ncols) + 1]]

half_lines(h) == (h + 1) \div 2

lines_to_read_unclamped(y, h, B) == B

lines_to_read(y, h, B) ==
    IF y + B > half_lines(h) THEN half_lines(h) - y ELSE B

rev_yy(y, h, B) == h - y - 1 - lines_to_read(y, h, B)

lower_bound(y, w) == y * w
upper_bound(y, h, w, B) == y * w + lines_to_read(y, h, B) * w
rev_lower_bound(y, h, w, B) == rev_yy(y, h, B) * w
rev_upper_bound(y, h, w, B) == rev_yy(y, h, B) * w + lines_to_read(y, h, B) * w

\* the usize subtraction does not underflow and both reads are accepted
rev_reads_ok(st, base, y, h, w, B) ==
    /\ rev_yy(y, h, B) >= 0
    /\ slice_ok(st, base, lower_bound(y, w), upper_bound(y, h, w, B))
    /\ slice_ok(st, base, rev_lower_bound(y, h, w, B), rev_upper_bound(y, h, w, B))

vals_final(st, base, y, h, w, B) ==
    rev_array(read_slice_1d(st, base, lower_bound(y, w), upper_bound(y, h, w, B)),
              lines_to_read(y, h, B), w)

rev_vals_final(st, base, y, h, w, B) ==
    rev_array(read_slice_1d(st, base, rev_lower_bound(y, h, w, B), rev_upper_bound(y, h, w, B)),
              lines_to_read(y, h, B), w)

\* ds_out.write_slice(rev_vals_final, &slice)
write_fwd(st, base, y, h, w, B) ==
    write_slice(st, ds_name_rev(base), rev_vals_final(st, base, y, h, w, B), lower_bound(y, w))

\* ds_out.write_slice(vals_final, &rev_slice)
write_mirror(st, base, y, h, w, B) ==
    write_slice(st, ds_name_rev(base), vals_final(st, base, y, h, w, B),
                rev_lower_bound(y, h, w, B))

\* The batch loop run to its end from row y: the file it leaves and how it ended.
RECURSIVE rev_loop(_, _, _, _, _, _)
rev_loop(st, base, y, h, w, B) ==
    IF y >= half_lines(h) THEN [st |-> st, status |-> "done"]
    ELSE IF ~rev_reads_ok(st, base, y, h, w, B) THEN [st |-> st, status |-> "aborted"]
    ELSE rev_loop(write_mirror(write_fwd(st, base, y, h, w, B), base, y, h, w, B),
                  base, y + B, h, w, B)

----------------------------------------------------------------------------
(* calc_mean_sd *)

max_size(st, group_name) == ds_size(st, sum_path(group_name))

n_vals_read_short(i, max, c) == IF i + c > max THEN max - i - 1 ELSE c

n_vals_read(i, max, c) == IF i + c > max THEN max - i ELSE c

calc_reads_ok(st, group_name, i, c) ==
    LET n == n_vals_read(i, max_size(st, group_name), c)
    IN  /\ slice_ok(st, sum_path(group_name), i, i + n)
        /\ slice_ok(st, sumsq_path(group_name), i, i + n)
        /\ slice_ok(st, count_path(group_name), i, i + n)

sum_vals(st, group_name, i, c) ==
    read_slice_1d(st, sum_path(group_name), i, i + n_vals_read(i, max_size(st, group_name), c))

sumsq_vals(st, group_name, i, c) ==
    read_slice_1d(st, sumsq_path(group_name), i, i + n_vals_read(i, max_size(st, group_name), c))

count_vals(st, group_name, i, c) ==
    read_slice_1d(st, count_path(group_name), i, i + n_vals_read(i, max_size(st, group_name), c))

mask_le_one(counts) == [j \in 1..Len(counts) |-> counts[j] <= 1]

\* count_vals.mapv(|el| el == 0), on the u8 values
mask(counts) == [j \in 1..Len(counts) |-> counts[j] = 0]

\* &sum_vals / &count_vals
mean(sums, counts) ==
    [j \in 1..Len(sums) |-> f32_div(sums[j], as_f32(counts[j]))]

\* (sumsq_vals - sum_vals^2 / count_vals) / (count_vals - 1)
variance(sums, sumsqs, counts) ==
    [j \in 1..Len(sums) |->
        f32_div(f32_sub(sumsqs[j], f32_div(powi2(sums[j]), as_f32(counts[j]))),
                f32_sub(as_f32(counts[j]), Fin(1, 1)))]

\* variance.mapv(sqrt), then -1 wherever the mask is set
sd(sums, sumsqs, counts) ==
    [j \in 1..Len(sums) |->
        IF mask(counts)[j] THEN Fin(-1, 1) ELSE sqrt(variance(sums, sumsqs, counts)[j])]

write_mean(st, group_name, i, c) ==
    write_slice(st, mean_path_out(group_name),
                mean(sum_vals(st, group_name, i, c), count_vals(st, group_name, i, c)), i)

write_sd(st, group_name, i, c) ==
    write_slice(st, sd_path_out(group_name),
                sd(sum_vals(st, group_name, i, c), sumsq_vals(st, group_name, i, c),
                   count_vals(st, group_name, i, c)), i)

\* The batch loop run to its end from index i.
RECURSIVE calc_loop(_, _, _, _)
calc_loop(st, group_name, i, c) ==
    IF i >= max_size(st, group_name) THEN [st |-> st, status |-> "done"]
    ELSE IF ~calc_reads_ok(st, group_name, i, c) THEN [st |-> st, status |-> "aborted"]
    ELSE calc_loop(write_sd(write_mean(st, group_name, i, c), group_name, i, c),
                   group_name, i + c, c)

----------------------------------------------------------------------------
(* Initial files *)

Ds(data) == [exists |-> TRUE, data |-> data, nw |-> [i \in 1..Len(data) |-> 0]]

\* row-batch sizes tried for a raster of h rows
BatchSizes(h) == {1, 3, half_lines(h), n_lines_read_main}

ChunkSizes == {1, 2, chunk_size_main}

\* accumulator cells <<sum, sumsq, count>>
Cells == {<<0, 0, 0>>, <<2, 4, 0>>, <<3, 9, 1>>, <<2, 5, 1>>, <<10, 30, 4>>, <<2, 1, 2>>}

\* a file holding one raster band of h rows and w columns, elements 1..h*w
InitBand ==
    \E h \in 1..MaxHeight, w \in 1..MaxWidth :
      \E B \in BatchSizes(h) :
        /\ store = [nm \in AllNames |->
                      IF nm = Band THEN Ds([i \in 1..(h * w) |-> i]) ELSE NoDs]
        /\ xsize = w /\ ysize = h
        /\ n_lines_read = B
        /\ chunk_size = chunk_size_main

GroupFile(cells, ls, lq, lc) ==
    [nm \in AllNames |->
        IF nm = sum_path(Group) THEN Ds([i \in 1..ls |-> Fin(cells[i][1], 1)])
        ELSE IF nm = sumsq_path(Group) THEN Ds([i \in 1..lq |-> Fin(cells[i][2], 1)])
        ELSE IF nm = count_path(Group) THEN Ds([i \in 1..lc |-> cells[i][3]])
        ELSE NoDs]

\* a file holding the reversed accumulators of one group, all of length n
InitGroup ==
    \E n \in 0..MaxLen :
      \E cells \in [1..n -> Cells], c \in ChunkSizes :
        /\ store = GroupFile(cells, n, n, n)
        /\ xsize = 1 /\ ysize = n
        /\ n_lines_read = n_lines_read_main
        /\ chunk_size = c

InitCtl ==
    /\ pc = "idle" /\ cur = <<>> /\ yy = 0 /\ ii = 0 /\ calls = 0
    /\ last = "none" /\ failed = FALSE /\ partial = {} /\ restarts = 0

Init == (InitBand \/ InitGroup) /\ InitCtl

----------------------------------------------------------------------------
(* Outputs created by the running invocation and not yet fully written *)

Unfinished ==
    IF pc \in {"rev_w1", "rev_w2"} \/ (pc = "rev_loop" /\ yy < half_lines(ysize))
      THEN {ds_name_rev(cur)}
    ELSE IF pc = "calc_create_sd" /\ max_size(store, cur) > 0
      THEN {mean_path_out(cur)}
    ELSE IF pc \in {"calc_w_mean", "calc_w_sd"} \/ (pc = "calc_loop" /\ ii < max_size(store, cur))
      THEN {mean_path_out(cur), sd_path_out(cur)}
    ELSE {}

\* return from the operation
Return(how) ==
    /\ pc' = "idle" /\ last' = how
    /\ UNCHANGED <<failed, partial>>

\* unwrap() on an Err, or an arithmetic overflow: the process panics
Panic(isFailure) ==
    /\ pc' = "aborted"
    /\ failed' = (failed \/ isFailure)
    /\ partial' = partial \cup Unfinished
    /\ UNCHANGED last

----------------------------------------------------------------------------
(* main: the operations applied to the datasets and groups the file lists *)

GroupListed(st) == \E nm \in AllNames : link_exists(st, nm) /\ nm[1] = Group[1]

CallReverse ==
    /\ pc = "idle" /\ calls < MaxCalls
    /\ \E base \in AllNames : link_exists(store, base) /\ cur' = base
    /\ pc' = "rev_enter" /\ calls' = calls + 1
    /\ UNCHANGED <<store, xsize, ysize, n_lines_read, chunk_size, yy, ii, last,
                   failed, partial, restarts>>

CallCalc ==
    /\ pc = "idle" /\ calls < MaxCalls
    /\ GroupListed(store)
    /\ cur' = Group
    /\ pc' = "calc_enter" /\ calls' = calls + 1
    /\ UNCHANGED <<store, xsize, ysize, n_lines_read, chunk_size, yy, ii, last,
                   failed, partial, restarts>>

----------------------------------------------------------------------------
(* reverse_ds_rows, step by step *)

rev_returns_early_suffix_only(st, base_ds) == ends_with_rev(base_ds)

\* the operation returns without doing anything
rev_returns_early(st, base_ds) ==
    ends_with_rev(base_ds) \/ link_exists(st, ds_name_rev(base_ds))

\* lines 81-92: the two guards, opening the input, creating the output
RevEnter ==
    /\ pc = "rev_enter"
    /\ IF ends_with_rev(cur)
         THEN Return("rev_rejected") /\ UNCHANGED <<store, yy>>
       ELSE IF rev_returns_early(store, cur)
         THEN Return("rev_skipped") /\ UNCHANGED <<store, yy>>
       ELSE IF ~link_exists(store, cur) \/ ~create_ok(store, ds_name_rev(cur))
         THEN Panic(TRUE) /\ UNCHANGED <<store, yy>>
       ELSE /\ store' = create_dataset(store, ds_name_rev(cur), ds_size(store, cur), 0)
            /\ yy' = 0
            /\ pc' = "rev_loop"
            /\ UNCHANGED <<last, failed, partial>>
    /\ UNCHANGED <<xsize, ysize, n_lines_read, chunk_size, cur, ii, calls, restarts>>

\* lines 94-119: loop test, window arithmetic, the two reads
RevRead ==
    /\ pc = "rev_loop"
    /\ IF yy >= half_lines(ysize)
         THEN Return("rev_done")
       ELSE IF ~rev_reads_ok(store, cur, yy, ysize, xsize, n_lines_read)
         THEN Panic(rev_yy(yy, ysize, n_lines_read) >= 0)
       ELSE pc' = "rev_w1" /\ UNCHANGED <<last, failed, partial>>
    /\ UNCHANGED <<store, xsize, ysize, n_lines_read, chunk_size, cur, yy, ii, calls, restarts>>

\* lines 121-123
RevWriteFwd ==
    /\ pc = "rev_w1"
    /\ store' = write_fwd(store, cur, yy, ysize, xsize, n_lines_read)
    /\ pc' = "rev_w2"
    /\ UNCHANGED <<xsize, ysize, n_lines_read, chunk_size, cur, yy, ii, calls, last,
                   failed, partial, restarts>>

\* lines 124-126 and the step of the loop
RevWriteMirror ==
    /\ pc = "rev_w2"
    /\ store' = write_mirror(store, cur, yy, ysize, xsize, n_lines_read)
    /\ yy' = yy + n_lines_read
    /\ pc' = "rev_loop"
    /\ UNCHANGED <<xsize, ysize, n_lines_read, chunk_size, cur, ii, calls, last,
                   failed, partial, restarts>>

----------------------------------------------------------------------------
(* calc_mean_sd, step by step *)

calc_returns_early_on_sd(st, group_name) == link_exists(st, sd_path_out(group_name))

calc_returns_early(st, group_name) == link_exists(st, mean_path_out(group_name))

calc_inputs_exist(st, group_name) ==
    /\ link_exists(st, sum_path(group_name))
    /\ link_exists(st, sumsq_path(group_name))
    /\ link_exists(st, count_path(group_name))

\* lines 146-154: the guard, opening the inputs, creating the mean output
CalcEnter ==
    /\ pc = "calc_enter"
    /\ IF calc_returns_early(store, cur)
         THEN Return("calc_skipped") /\ UNCHANGED store
       ELSE IF ~calc_inputs_exist(store, cur) \/ ~create_ok(store, mean_path_out(cur))
         THEN Panic(TRUE) /\ UNCHANGED store
       ELSE /\ store' = create_dataset(store, mean_path_out(cur), max_size(store, cur), Fin(0, 1))
            /\ pc' = "calc_create_sd"
            /\ UNCHANGED <<last, failed, partial>>
    /\ UNCHANGED <<xsize, ysize, n_lines_read, chunk_size, cur, yy, ii, calls, restarts>>

\* line 155
CalcCreateSd ==
    /\ pc = "calc_create_sd"
    /\ IF ~create_ok(store, sd_path_out(cur))
         THEN Panic(TRUE) /\ UNCHANGED <<store, ii>>
       ELSE /\ store' = create_dataset(store, sd_path_out(cur), max_size(store, cur), Fin(0, 1))
            /\ ii' = 0
            /\ pc' = "calc_loop"
            /\ UNCHANGED <<last, failed, partial>>
    /\ UNCHANGED <<xsize, ysize, n_lines_read, chunk_size, cur, yy, calls, restarts>>

\* lines 157-181: loop test, the three reads, the arithmetic
CalcRead ==
    /\ pc = "calc_loop"
    /\ IF ii >= max_size(store, cur)
         THEN Return("calc_done")
       ELSE IF ~calc_reads_ok(store, cur, ii, chunk_size)
         THEN Panic(TRUE)
       ELSE pc' = "calc_w_mean" /\ UNCHANGED <<last, failed, partial>>
    /\ UNCHANGED <<store, xsize, ysize, n_lines_read, chunk_size, cur, yy, ii, calls, restarts>>

\* line 183
CalcWriteMean ==
    /\ pc = "calc_w_mean"
    /\ store' = write_mean(store, cur, ii, chunk_size)
    /\ pc' = "calc_w_sd"
    /\ UNCHANGED <<xsize, ysize, n_lines_read, chunk_size, cur, yy, ii, calls, last,
                   failed, partial, restarts>>

\* line 184 and the step of the loop
CalcWriteSd ==
    /\ pc = "calc_w_sd"
    /\ store' = write_sd(store, cur, ii, chunk_size)
    /\ ii' = ii + chunk_size
    /\ pc' = "calc_loop"
    /\ UNCHANGED <<xsize, ysize, n_lines_read, chunk_size, cur, yy, calls, last,
                   failed, partial, restarts>>

----------------------------------------------------------------------------
Next ==
    \/ CallReverse
    \/ CallCalc
    \/ RevEnter
    \/ RevRead
    \/ RevWriteFwd
    \/ RevWriteMirror
    \/ CalcEnter
    \/ CalcCreateSd
    \/ CalcRead
    \/ CalcWriteMean
    \/ CalcWriteSd

Spec == Init /\ [][Next]_vars

----------------------------------------------------------------------------
(* The store rejecting operations: SpecFail *)

\* a group file in which one accumulator is one element short, or is absent
InitDefective ==
    \E n \in 1..MaxLen :
      \E cells \in [1..n -> Cells], c \in ChunkSizes,
         which \in {"sum", "sumsq", "count"}, absent \in BOOLEAN :
        /\ store = [GroupFile(cells,
                              IF which = "sum" THEN n - 1 ELSE n,
                              IF which = "sumsq" THEN n - 1 ELSE n,
                              IF which = "count" THEN n - 1 ELSE n)
                    EXCEPT ![Concat(Group, <<which, "_rev">>)] = IF absent THEN NoDs ELSE @]
        /\ xsize = 1 /\ ysize = n
        /\ n_lines_read = n_lines_read_main
        /\ chunk_size = c

InitFail == (InitBand \/ InitGroup \/ InitDefective) /\ InitCtl

\* create_dataset(...).unwrap() on an Err (lines 89, 135, 154, 155)
StoreRejectsCreate ==
    /\ \/ pc = "rev_enter" /\ ~rev_returns_early(store, cur) /\ link_exists(store, cur)
       \/ pc = "calc_enter" /\ ~calc_returns_early(store, cur) /\ calc_inputs_exist(store, cur)
       \/ pc = "calc_create_sd"
    /\ Panic(TRUE)
    /\ UNCHANGED <<store, xsize, ysize, n_lines_read, chunk_size, cur, yy, ii, calls, restarts>>

\* read_slice_1d(...).unwrap() on an Err (lines 115, 118)
RevReadFail ==
    /\ pc = "rev_loop" /\ yy < half_lines(ysize)
    /\ Panic(TRUE)
    /\ UNCHANGED <<store, xsize, ysize, n_lines_read, chunk_size, cur, yy, ii, calls, restarts>>

\* write_slice(...).unwrap() on an Err (lines 121-126)
RevWriteFail ==
    /\ pc \in {"rev_w1", "rev_w2"}
    /\ Panic(TRUE)
    /\ UNCHANGED <<store, xsize, ysize, n_lines_read, chunk_size, cur, yy, ii, calls, restarts>>

\* read_slice_1d(...).unwrap() on an Err (lines 167-169)
CalcReadFail ==
    /\ pc = "calc_loop" /\ ii < max_size(store, cur)
    /\ Panic(TRUE)
    /\ UNCHANGED <<store, xsize, ysize, n_lines_read, chunk_size, cur, yy, ii, calls, restarts>>

\* line 183: let _ = mean_ds_out.write_slice(...) drops the Err
CalcWriteMeanFail ==
    /\ pc = "calc_w_mean"
    /\ failed' = TRUE
    /\ pc' = "calc_w_sd"
    /\ UNCHANGED <<store, xsize, ysize, n_lines_read, chunk_size, cur, yy, ii, calls, last,
                   partial, restarts>>

\* line 184: let _ = sd_ds_out.write_slice(...) drops the Err
CalcWriteSdFail ==
    /\ pc = "calc_w_sd"
    /\ failed' = TRUE
    /\ ii' = ii + chunk_size
    /\ pc' = "calc_loop"
    /\ UNCHANGED <<store, xsize, ysize, n_lines_read, chunk_size, cur, yy, calls, last,
                   partial, restarts>>

NextFail ==
    \/ Next
    \/ StoreRejectsCreate
    \/ RevReadFail
    \/ RevWriteFail
    \/ CalcReadFail
    \/ CalcWriteMeanFail
    \/ CalcWriteSdFail

SpecFail == InitFail /\ [][NextFail]_vars

----------------------------------------------------------------------------
(* The process being killed and started again on the same file: SpecCrash *)

Crash ==
    /\ pc \notin {"dead", "aborted"}
    /\ pc' = "dead"
    /\ partial' = partial \cup Unfinished
    /\ UNCHANGED <<store, xsize, ysize, n_lines_read, chunk_size, cur, yy, ii, calls, last,
                   failed, restarts>>

Restart ==
    /\ pc \in {"dead", "aborted"}
    /\ restarts < MaxRestarts
    /\ restarts' = restarts + 1
    /\ pc' = "idle" /\ cur' = <<>> /\ yy' = 0 /\ ii' = 0 /\ last' = "none"
    /\ UNCHANGED <<store, xsize, ysize, n_lines_read, chunk_size, calls, failed, partial>>

NextCrash ==
    \/ Next
    \/ Crash
    \/ Restart

SpecCrash == Init /\ [][NextCrash]_vars

----------------------------------------------------------------------------
(* Claims *)

RevOut == ds_name_rev(Band)

RevFinished == pc = "idle" /\ last = "rev_done"

CalcFinished == pc = "idle" /\ last = "calc_done"

Written(ds) == {i \in 1..Len(ds.nw) : ds.nw[i] > 0}

\* C1: when the output did not exist, reverse_ds_rows leaves an output of
\* h*w elements whose row r is input row h-1-r, for every row r.
C1_RowsReversed ==
    RevFinished =>
        /\ ds_size(store, RevOut) = ysize * xsize
        /\ \A r \in 0..(ysize - 1), c \in 1..xsize :
              store[RevOut].data[r * xsize + c] = store[Band].data[(ysize - 1 - r) * xsize + c]

\* The batch loop of reverse_ds_rows applied to the output as its input.
ReversedAgain ==
    rev_loop([nm \in AllNames |->
                 IF nm = Band THEN Ds(store[RevOut].data)
                 ELSE IF nm = RevOut THEN NewDs(ds_size(store, RevOut), 0)
                 ELSE NoDs],
             Band, 0, ysize, xsize, n_lines_read)

\* C2: reversing the rows and reversing the result again gives back the
\* original array at every flat index.
C2_Involution ==
    RevFinished =>
        /\ ReversedAgain.status = "done"
        /\ ReversedAgain.st[RevOut].data = store[Band].data

\* the whole loop of reverse_ds_rows on the same input with row-batch size b
RevWithBatch(b) ==
    rev_loop(create_dataset(store, RevOut, ds_size(store, Band), 0),
             Band, 0, ysize, xsize, b)

\* C3: the reversal run with any of the row-batch sizes 1, 3, ceil(h/2), 100
\* ends the same way and leaves the same output, element by element, with
\* the same set of written elements.
C3_BatchInvariance ==
    (RevFinished \/ (pc = "aborted" /\ cur = Band)) =>
        \A b \in BatchSizes(ysize) :
            /\ (RevWithBatch(b).status = "done") = RevFinished
            /\ RevWithBatch(b).st[RevOut].data = store[RevOut].data
            /\ Written(RevWithBatch(b).st[RevOut]) = Written(store[RevOut])

C3_Witness ==
    /\ RevFinished
    /\ n_lines_read = 1 /\ ysize = MaxHeight /\ xsize = MaxWidth

\* C4: an invocation that finds its output path already linked returns at
\* once and leaves every dataset of the file as it was.
C4_IdempotentSkip ==
    [][((pc = "rev_enter" /\ link_exists(store, ds_name_rev(cur)))
          \/ (pc = "calc_enter" /\ link_exists(store, mean_path_out(cur))))
       => (store' = store /\ pc' = "idle")]_vars

C4_Witness ==
    /\ pc = "idle" /\ last = "rev_skipped"
    /\ link_exists(store, RevOut)
    /\ calls >= 2

\* C5: after calc_mean_sd completes, sd is exactly -1 (not NaN, not Inf) at
\* every index whose count is 0, and is not the sentinel at any index whose
\* count is not 0; at count 1 it is the unmasked NaN or Inf.
C5_ZeroCountSentinel ==
    CalcFinished =>
        \A i \in 1..max_size(store, Group) :
            LET c == store[count_path(Group)].data[i]
                s == store[sd_path_out(Group)].data[i]
            IN  /\ (c = 0) => (s = Fin(-1, 1) /\ ~IsNaNOrInf(s))
                /\ (c # 0) => (s # Fin(-1, 1))
                /\ (c = 1) => IsNaNOrInf(s)

C5_Witness ==
    /\ CalcFinished
    /\ \E i, j \in 1..max_size(store, Group) :
          /\ store[count_path(Group)].data[i] = 0
          /\ store[count_path(Group)].data[j] = 1

\* the whole loop of calc_mean_sd on the same inputs with batch size c
CalcWithChunk(c) ==
    calc_loop(create_dataset(create_dataset(store, mean_path_out(Group),
                                            max_size(store, Group), Fin(0, 1)),
                             sd_path_out(Group), max_size(store, Group), Fin(0, 1)),
              Group, 0, c)

CellAt(i) ==
    <<store[sum_path(Group)].data[i], store[sumsq_path(Group)].data[i],
      store[count_path(Group)].data[i]>>

\* C6: calc_mean_sd writes every index of mean and sd exactly once, the
\* outputs are those of any other batch size, and two indices with the same
\* sum, sumsq and count hold the same mean and sd.
C6_BatchBoundary ==
    CalcFinished =>
        /\ \A i \in 1..max_size(store, Group) :
              /\ store[mean_path_out(Group)].nw[i] = 1
              /\ store[sd_path_out(Group)].nw[i] = 1
        /\ \A c \in ChunkSizes \cup 1..(MaxLen + 1) :
              /\ CalcWithChunk(c).status = "done"
              /\ CalcWithChunk(c).st[mean_path_out(Group)].data = store[mean_path_out(Group)].data
              /\ CalcWithChunk(c).st[sd_path_out(Group)].data = store[sd_path_out(Group)].data
        /\ \A i, j \in 1..max_size(store, Group) :
              CellAt(i) = CellAt(j) =>
                 /\ store[mean_path_out(Group)].data[i] = store[mean_path_out(Group)].data[j]
                 /\ store[sd_path_out(Group)].data[i] = store[sd_path_out(Group)].data[j]

C6_Witness ==
    /\ CalcFinished
    /\ chunk_size = 2 /\ max_size(store, Group) = 3
    /\ CellAt(1) = CellAt(3)

\* C7: once an input is missing or the store has rejected a read or a
\* write, the process is aborted; and calc_mean_sd does not complete on
\* accumulators of different lengths.
C7_FailuresFatal ==
    /\ failed => pc = "aborted"
    /\ CalcFinished =>
          /\ ds_size(store, sumsq_path(Group)) = ds_size(store, sum_path(Group))
          /\ ds_size(store, count_path(Group)) = ds_size(store, sum_path(Group))

\* C8: in every iteration the forward rows and the mirror rows share no
\* row, except possibly the middle row of an odd height.
C8_MirrorDisjoint ==
    pc = "rev_w1" =>
        LET rows == lines_to_read(yy, ysize, n_lines_read)
            ry == rev_yy(yy, ysize, n_lines_read)
            fwd == yy..(yy + rows - 1)
            mir == ry..(ry + rows - 1)
        IN  (fwd \cap mir) \subseteq (IF ysize % 2 = 1 THEN {(ysize - 1) \div 2} ELSE {})

\* C9: an output left partially written by a terminated process is never
\* changed again, and every later invocation for it returns from the
\* existence guard.
C9_NeverRepaired ==
    [][/\ \A nm \in partial : store'[nm] = store[nm]
       /\ (pc = "rev_enter" /\ ds_name_rev(cur) \in partial) => pc' \in {"idle", "dead"}
       /\ (pc = "calc_enter" /\ mean_path_out(cur) \in partial) => pc' \in {"idle", "dead"}]_vars

C9_Witness ==
    /\ pc = "idle" /\ restarts > 0
    /\ last \in {"rev_skipped", "calc_skipped"}
    /\ \E nm \in partial : \E i \in 1..Len(store[nm].nw) : store[nm].nw[i] = 0

\* C10: in every iteration rev_yy is not negative and both windows lie
\* inside [0, h*w).
C10_WindowBounds ==
    (pc = "rev_loop" /\ yy < half_lines(ysize)) =>
        /\ rev_yy(yy, ysize, n_lines_read) >= 0
        /\ 0 <= lower_bound(yy, xsize)
        /\ upper_bound(yy, ysize, xsize, n_lines_read) <= ysize * xsize
        /\ 0 <= rev_lower_bound(yy, ysize, xsize, n_lines_read)
        /\ rev_upper_bound(yy, ysize, xsize, n_lines_read) <= ysize * xsize

====
